---- MODULE Spec2Model ----
(***************************************************************************)
(* Token lifecycle of express-apollo-server: the authentication context    *)
(* builders (createContext, the useServer context of index.js,             *)
(* createSubscriptionContext), the register, login and logout resolvers,  *)
(* the user queries, updateUser, deleteUser and the user subscriptions,    *)
(* the analytics routers, and the user table they share.                   *)
(*                                                                         *)
(* Time is counted in seconds (one tick of `now`); Date.now() is           *)
(* now * 1000 milliseconds.  A handler is split at its `await` on          *)
(* prisma.user.update: the synchronous prefix, the store applying the      *)
(* update, and the continuation are three steps, so that other requests    *)
(* interleave exactly where the event loop lets them.                      *)
(***************************************************************************)
EXTENDS Integers, FiniteSets, Sequences, TLC

\* ---------------------------------------------------------------- bounds
MaxReq == 2
MaxTime == 2

Reqs == 1..MaxReq
Users == {"u1", "u2"}
Null == "null"
\* a user whose row was deleted after the earlier session: the tokens are
\* still in the client's hands
DeletedUser == "u2"
\* the id prisma generates for the row a register call creates
NewId(r) == "n" \o ToString(r)
NewIds == {NewId(r) : r \in Reqs}

\* ------------------------------------------------------- Token Codec
\* utils/jwtUtils.js is not part of the sources; the codec follows the
\* contract of the specification: issue is deterministic in (identity,
\* purpose, clock), verify checks signature, then expiry, then purpose.
AccessLifetime == 1
RefreshLifetime == 3

NoToken == [sub |-> Null, purpose |-> "NONE", exp |-> 0, sig |-> FALSE]

generateAccessToken(u, t) ==
    [sub |-> u, purpose |-> "ACCESS", exp |-> t + AccessLifetime, sig |-> TRUE]

generateRefreshToken(u, t) ==
    [sub |-> u, purpose |-> "REFRESH", exp |-> t + RefreshLifetime, sig |-> TRUE]

\* verifyToken(token, isRefresh): "ok" or the kind of the error thrown
verifyToken(tok, isRefresh, t) ==
    IF ~tok.sig THEN "SignatureInvalid"
    ELSE IF t > tok.exp THEN "TokenExpired"
    ELSE IF tok.purpose # (IF isRefresh THEN "REFRESH" ELSE "ACCESS")
         THEN "PurposeMismatch"
    ELSE "ok"

\* extractTokenFromHeader: the token of a "Bearer <token>" header, or none
extractTokenFromHeader(header) ==
    IF header.scheme = "Bearer" THEN header.token ELSE NoToken

NoHeader == [scheme |-> "", token |-> NoToken]
Bearer(tok) == [scheme |-> "Bearer", token |-> tok]

\* a token whose signed payload was tampered with
Forged == [sub |-> "u1", purpose |-> "ACCESS", exp |-> 0, sig |-> FALSE]

\* ------------------------------------------------------- configuration
\* config.jwt.* are strings: the environment variable or the default.
\* The settings considered: both defaults, a numeric access expiration
\* with the default refresh expiration, both numeric, and a zero access
\* expiration.
ConfigValues ==
    {[accessExpiration |-> "15m", refreshExpiration |-> "7d"],
     [accessExpiration |-> "2", refreshExpiration |-> "7d"],
     [accessExpiration |-> "2", refreshExpiration |-> "4"],
     [accessExpiration |-> "0", refreshExpiration |-> "4"]}

\* Number(s) of JavaScript for the strings above; a string outside the
\* table converts to NaN
NumTable == [s \in {"2", "0", "4"} |-> IF s = "2" THEN 2 ELSE IF s = "0" THEN 0 ELSE 4]
IsNaN(s) == s \notin DOMAIN NumTable
Number(s) == NumTable[s]

VARIABLES
    now,        \* wall clock, seconds
    config,     \* config.jwt: [accessExpiration, refreshExpiration]
    store,      \* the User table: per id, the row (or present = FALSE)
    reqs,       \* per request: the handler's locals, position and result
    lastWriter  \* per user id: the request whose update the store applied last (0: none)

vars == <<now, config, store, reqs, lastWriter>>

\* `config.jwt.accessExpiration || 3600` followed by
\* `isNaN(expirationTime) || expirationTime <= 0`
InvalidExpiration(c) ==
    LET expirationTime == c.accessExpiration
    IN  IsNaN(expirationTime) \/ Number(expirationTime) <= 0

\* authTokenExpiry: new Date(Date.now() + expirationTime * 1000), in ms
AuthTokenExpiry(c, t) == t * 1000 + Number(c.accessExpiration) * 1000

\* res.cookie(..., { maxAge: config.jwt.refreshExpiration * 1000 }):
\* the product is NaN for a non-numeric setting and the cookie
\* serializer rejects a NaN maxAge with a TypeError
CookieThrows(c) == IsNaN(c.refreshExpiration)

\* ------------------------------------------------------- request records
IdleReq ==
    [op |-> "none", pc |-> "idle",
     bearerSt |-> "none", refreshSt |-> "none", sub |-> Null,
     bearerTok |-> NoToken, refreshTok |-> NoToken,
     nVerifyRefresh |-> 0, minted |-> FALSE,
     newAccessToken |-> NoToken, newRefreshToken |-> NoToken,
     expiry |-> 0, at |-> 0, wr |-> "none",
     user |-> Null, ctxTokens |-> FALSE, tokenRefreshed |-> FALSE,
     cookie |-> NoToken, body |-> NoToken,
     threw |-> FALSE, verdict |-> "none",
     snapshot |-> NoToken,
     resolver |-> "none", rwr |-> "none", result |-> "none", doneAt |-> 0,
     role |-> "none", target |-> Null, touched |-> FALSE, events |-> <<>>,
     payload |-> [id |-> Null, email |-> Null, role |-> Null, firstName |-> Null]]

InFlight(r) == reqs[r].pc \in {"writing", "resume"}
Done(r) == reqs[r].pc = "done"

\* tokens a client can hold: those of earlier sessions and every token a
\* handler handed out (cookie, context fields, response body)
\* the earlier session of each user was opened one second before the
\* model's clock starts; a refresh token of a still older session has
\* expired by then
SessionStart == 0 - 1
OlderSessionStart == SessionStart - RefreshLifetime - 1
InitTokens ==
    UNION {{generateAccessToken(u, SessionStart),
            generateRefreshToken(u, SessionStart)} : u \in Users}
    \cup {generateRefreshToken("u1", OlderSessionStart)}

Delivered(r) ==
    ({reqs[r].cookie, reqs[r].body}
        \cup (IF reqs[r].ctxTokens
              THEN {reqs[r].newAccessToken, reqs[r].newRefreshToken} ELSE {}))
    \ {NoToken}

Issued == InitTokens \cup UNION {Delivered(r) : r \in Reqs}

TokenInputs == {NoToken, Forged} \cup Issued

\* the email each user registered with
EmailOf(u) == IF u = "u1" THEN "u1@x.com" ELSE "u2@x.com"

Init ==
    /\ now = 0
    /\ config \in ConfigValues
    /\ store = [u \in Users \cup NewIds |->
                  [present |-> u \in Users \ {DeletedUser},
                   id |-> u, email |-> IF u \in Users THEN EmailOf(u) ELSE Null, role |-> "USER",
                   firstName |-> "first",
                   authToken |-> generateAccessToken(u, SessionStart),
                   authTokenExpiry |-> 0,
                   lastLoginAt |-> SessionStart]]
    /\ reqs = [r \in Reqs |-> IdleReq]
    /\ lastWriter = [u \in Users |-> 0]

Tick ==
    /\ now < MaxTime
    /\ now' = now + 1
    /\ UNCHANGED <<config, store, reqs, lastWriter>>

\* ------------------------------------------------------- handler outcomes
\* request slots are taken in order (they are interchangeable)
CanStart(r) ==
    /\ reqs[r].pc = "idle"
    /\ r > 1 => reqs[r - 1].pc # "idle"

\* a handler's step: the new value of its record
Begin(r, rec) == reqs' = [reqs EXCEPT ![r] = rec]
End(r, rec) == reqs' = [reqs EXCEPT ![r] = rec]

BearerStatus(header, t) ==
    IF extractTokenFromHeader(header) = NoToken THEN "absent"
    ELSE verifyToken(extractTokenFromHeader(header), FALSE, t)

RefreshStatus(tok, t) ==
    IF tok = NoToken THEN "absent" ELSE verifyToken(tok, TRUE, t)

\* what the request presented, kept with its record: the status of the
\* bearer, and that of the refresh credential (in full where an expired
\* bearer makes the handlers look at it, else only whether it is valid);
\* the bearer itself when it verifies, the refresh credential itself when
\* it verifies and the bearer has expired
Arrive(op, header, refreshToken, t) ==
    [IdleReq EXCEPT !.op = op,
                    !.bearerSt = BearerStatus(header, t),
                    !.bearerTok =
                        IF BearerStatus(header, t) = "ok"
                        THEN extractTokenFromHeader(header) ELSE NoToken,
                    !.refreshTok =
                        IF BearerStatus(header, t) = "TokenExpired"
                           /\ RefreshStatus(refreshToken, t) = "ok"
                        THEN refreshToken ELSE NoToken,
                    !.refreshSt =
                        IF BearerStatus(header, t) = "TokenExpired"
                           \/ RefreshStatus(refreshToken, t) = "ok"
                        THEN RefreshStatus(refreshToken, t)
                        ELSE "unused"]

\* `return { user: null, ... }`
Anonymous(rq, verdict) ==
    [rq EXCEPT !.pc = "done", !.user = Null, !.verdict = verdict]

\* `return { user, ... }` after verifyToken(token) succeeded
Authenticated(rq, u) ==
    [rq EXCEPT !.pc = "done", !.user = u, !.verdict = "AUTHENTICATED"]

\* `error.name === 'TokenExpiredError'`
IsTokenExpiredError_any(err) == TRUE
IsTokenExpiredError(err) == err = "TokenExpired"

\* the second argument of verifyToken(refreshToken, ...) in each builder
RefreshFlag(op) == op # "ws"

\* `catch (refreshError) { ...; return { user: null, ... } }`
\* (the locals of the try block go out of scope)
DropLocals(rq) ==
    [rq EXCEPT !.newAccessToken = NoToken, !.newRefreshToken = NoToken,
               !.expiry = 0, !.at = 0]
RefreshCatch_rethrow(rq) ==
    [DropLocals(rq) EXCEPT !.pc = "done", !.user = Null, !.threw = TRUE,
                           !.verdict = "REFRESH_REJECTED"]
RefreshCatch(rq) == Anonymous(DropLocals(rq), "REFRESH_REJECTED")

RefreshSync_unverified(rq, refreshToken, t, c) ==
    LET user == refreshToken.sub
        rq2 == [rq EXCEPT !.nVerifyRefresh = @ + 1, !.sub = user, !.minted = TRUE,
                          !.newAccessToken = generateAccessToken(user, t),
                          !.newRefreshToken = generateRefreshToken(user, t)]
    IN  IF InvalidExpiration(c) THEN RefreshCatch(rq2)
        ELSE [rq2 EXCEPT !.pc = "writing", !.wr = "pending",
                         !.expiry = AuthTokenExpiry(c, t), !.at = t]

\* the try block of the refresh up to its await: verify the refresh
\* token, mint the pair, validate the expiration setting, issue the update
RefreshSync(rq, refreshToken, t, c) ==
    LET rq1 == [rq EXCEPT !.nVerifyRefresh = @ + 1]
        user == refreshToken.sub
        rq2 == [rq1 EXCEPT !.sub = user, !.minted = TRUE,
                           !.newAccessToken = generateAccessToken(user, t),
                           !.newRefreshToken = generateRefreshToken(user, t)]
    IN  IF verifyToken(refreshToken, RefreshFlag(rq.op), t) # "ok"
        THEN RefreshCatch(rq1)
        ELSE IF InvalidExpiration(c) THEN RefreshCatch(rq2)
        ELSE [rq2 EXCEPT !.pc = "writing", !.wr = "pending",
                         !.expiry = AuthTokenExpiry(c, t), !.at = t]

\* createContext up to its await
createContext(header, refreshToken, t, c) ==
    LET rq == Arrive("http", header, refreshToken, t)
        token == extractTokenFromHeader(header)
        err == verifyToken(token, FALSE, t)
    IN  IF token = NoToken THEN Anonymous(rq, "REJECTED")
        ELSE IF err = "ok" THEN Authenticated(rq, token.sub)
        ELSE IF IsTokenExpiredError(err)
             THEN IF refreshToken = NoToken
                  THEN Anonymous(rq, "REFRESH_REJECTED")
                  ELSE RefreshSync(rq, refreshToken, t, c)
        ELSE Anonymous(rq, "REJECTED")

\* the context function given to useServer, up to its await
wsContext(header, refreshToken, t, c) ==
    LET rq == Arrive("ws", header, refreshToken, t)
        token == extractTokenFromHeader(header)
        err == verifyToken(token, FALSE, t)
    IN  IF header = NoHeader \/ token = NoToken THEN Anonymous(rq, "REJECTED")
        ELSE IF err = "ok" THEN Authenticated(rq, token.sub)
        ELSE IF IsTokenExpiredError(err) /\ refreshToken # NoToken
             THEN RefreshSync(rq, refreshToken, t, c)
        ELSE Anonymous(rq, IF IsTokenExpiredError(err)
                           THEN "REFRESH_REJECTED" ELSE "REJECTED")

\* createSubscriptionContext: no await, the whole handler
createSubscriptionContext(header, refreshToken, t) ==
    LET rq == Arrive("sub", header, refreshToken, t)
        token == extractTokenFromHeader(header)
        err == verifyToken(token, FALSE, t)
        rq1 == [rq EXCEPT !.nVerifyRefresh = @ + 1]
        user == refreshToken.sub
    IN  IF token = NoToken /\ refreshToken = NoToken
        THEN Anonymous(rq, "REJECTED")
        ELSE IF err = "ok" THEN Authenticated(rq, token.sub)
        ELSE IF IsTokenExpiredError(err) /\ refreshToken # NoToken
             THEN IF verifyToken(refreshToken, RefreshFlag("sub"), t) # "ok"
                  THEN RefreshCatch(rq1)
                  ELSE [rq1 EXCEPT !.pc = "done", !.sub = user, !.minted = TRUE,
                                   !.newAccessToken = generateAccessToken(user, t),
                                   !.newRefreshToken = generateRefreshToken(user, t),
                                   !.user = user, !.ctxTokens = TRUE,
                                   !.verdict = "REFRESHED"]
        ELSE Anonymous(rq, IF IsTokenExpiredError(err)
                           THEN "REFRESH_REJECTED" ELSE "REJECTED")

\* `throw new ValidationError('Invalid email or password')`, after
\* findUnique found no row (why = "email") or bcrypt.compare returned
\* false (why = "password")
InvalidCredentials_revealing(rq, why) ==
    [rq EXCEPT !.pc = "done", !.threw = TRUE, !.verdict = "ValidationError",
               !.result = IF why = "email" THEN "Invalid email" ELSE "Invalid password"]
InvalidCredentials(rq, why) ==
    [rq EXCEPT !.pc = "done", !.threw = TRUE, !.verdict = "ValidationError",
               !.result = "Invalid email or password"]

\* login up to its await on prisma.user.update
login(u, passwordValid, row, t, c) ==
    LET rq == [IdleReq EXCEPT !.op = "login", !.sub = u]
        rq2 == [rq EXCEPT !.minted = TRUE,
                          !.newAccessToken = generateAccessToken(u, t),
                          !.newRefreshToken = generateRefreshToken(u, t)]
    IN  IF ~row.present \/ ~passwordValid
        THEN InvalidCredentials(rq, IF ~row.present THEN "email" ELSE "password")
        ELSE IF InvalidExpiration(c)
        THEN [DropLocals(rq2) EXCEPT !.pc = "done", !.threw = TRUE,
                                     !.verdict = "Error"]
        ELSE [rq2 EXCEPT !.pc = "writing", !.wr = "pending",
                         !.expiry = AuthTokenExpiry(c, t), !.at = t]

\* the login resolver of resolvers/mutations.js (both copies), up to its
\* await on prisma.user.update: `user` is the row as findUnique returned it
loginLegacy(u, passwordValid, row, t, c) ==
    LET rq == login(u, passwordValid, row, t, c)
    IN  [rq EXCEPT !.op = "loginLegacy",
                   !.snapshot = IF rq.pc = "writing" THEN row.authToken ELSE NoToken]

\* logout of an HTTP request whose context is rq, up to its await on
\* prisma.user.update
logout(rq) ==
    IF rq.user = Null
    THEN [rq EXCEPT !.resolver = "logout", !.result = "ForbiddenError"]
    ELSE [rq EXCEPT !.resolver = "logout", !.pc = "rwriting", !.rwr = "pending",
                    !.touched = TRUE]

\* ------------------------------------------------------- the store
LoginOps == {"login", "loginLegacy"}

\* `authTokenExpiry: null`
NoExpiry == 0 - 1

\* `data: { authToken: null, authTokenExpiry: null }`
LogoutData_keep(row) == [row EXCEPT !.authTokenExpiry = NoExpiry]
LogoutData(row) == [row EXCEPT !.authToken = NoToken, !.authTokenExpiry = NoExpiry]

\* prisma.user.update({ where: { id }, data }): rejects when no row has
\* the id (P2025) or the database fails, else replaces the columns
UpdateData_stale(rq, row) ==
    [row EXCEPT !.authTokenExpiry = rq.expiry,
                !.lastLoginAt = IF rq.op \in LoginOps THEN rq.at ELSE @]
UpdateData_refresh(rq, row) ==
    [row EXCEPT !.authToken = rq.newRefreshToken,
                !.authTokenExpiry = rq.expiry,
                !.lastLoginAt = IF rq.op \in LoginOps THEN rq.at ELSE @]
UpdateData(rq, row) ==
    [row EXCEPT !.authToken = rq.newAccessToken,
                !.authTokenExpiry = rq.expiry,
                !.lastLoginAt = IF rq.op \in LoginOps THEN rq.at ELSE @]

\* ------------------------------------------------------- continuations
\* createContext after the update: set the cookie, return the identity
createContextResume_retry(rq, c) ==
    IF rq.wr # "ok" \/ CookieThrows(c)
    THEN [RefreshCatch(rq) EXCEPT !.nVerifyRefresh = @ + 1]
    ELSE [rq EXCEPT !.pc = "done", !.cookie = rq.newRefreshToken,
                    !.user = rq.sub, !.verdict = "REFRESHED"]
createContextResume(rq, c) ==
    IF rq.wr # "ok" \/ CookieThrows(c) THEN RefreshCatch(rq)
    ELSE [rq EXCEPT !.pc = "done", !.cookie = rq.newRefreshToken,
                    !.user = rq.sub, !.verdict = "REFRESHED"]

\* the useServer context after the update
wsContextResume(rq) ==
    IF rq.wr # "ok" THEN RefreshCatch(rq)
    ELSE [rq EXCEPT !.pc = "done", !.user = rq.sub, !.ctxTokens = TRUE,
                    !.tokenRefreshed = TRUE, !.verdict = "REFRESHED"]

\* login after the update: set the cookie, answer with the access token
loginResume(rq, c) ==
    IF rq.wr # "ok"
    THEN [DropLocals(rq) EXCEPT !.pc = "done", !.threw = TRUE,
                                !.verdict = "PrismaError"]
    ELSE IF CookieThrows(c)
    THEN [DropLocals(rq) EXCEPT !.pc = "done", !.threw = TRUE,
                                !.verdict = "TypeError"]
    ELSE [rq EXCEPT !.pc = "done", !.cookie = rq.newRefreshToken,
                    !.body = rq.newAccessToken, !.verdict = "LOGIN_OK"]

\* the login of resolvers/mutations.js after the update: set the cookie,
\* answer with `data: user`, the row read before the update
loginLegacyResume(rq, c) ==
    LET out == loginResume(rq, c)
    IN  [out EXCEPT !.snapshot = NoToken,
                    !.body = IF out.verdict = "LOGIN_OK" THEN rq.snapshot ELSE NoToken]

\* logout after the update: clear the cookie (maxAge: 0), answer
logoutResume(rq, t) ==
    IF rq.rwr # "ok"
    THEN [rq EXCEPT !.pc = "done", !.result = "PrismaError"]
    ELSE [rq EXCEPT !.pc = "done", !.result = "LOGOUT_OK", !.doneAt = t]

\* ------------------------------------------------------- actions
HttpRequest(r) ==
    /\ CanStart(r)
    /\ \E b \in TokenInputs, k \in TokenInputs :
         Begin(r, createContext(IF b = NoToken THEN NoHeader ELSE Bearer(b),
                                k, now, config))
    /\ UNCHANGED <<now, config, store, lastWriter>>

WsConnect(r) ==
    /\ CanStart(r)
    /\ \E b \in TokenInputs, k \in TokenInputs :
         Begin(r, wsContext(IF b = NoToken THEN NoHeader ELSE Bearer(b),
                            k, now, config))
    /\ UNCHANGED <<now, config, store, lastWriter>>

SubConnect(r) ==
    /\ CanStart(r)
    /\ \E b \in TokenInputs, k \in TokenInputs :
         Begin(r, createSubscriptionContext(
                     IF b = NoToken THEN NoHeader ELSE Bearer(b), k, now))
    /\ UNCHANGED <<now, config, store, lastWriter>>

Login(r) ==
    /\ CanStart(r)
    /\ \E u \in Users, passwordValid \in BOOLEAN :
         Begin(r, login(u, passwordValid, store[u], now, config))
    /\ UNCHANGED <<now, config, store, lastWriter>>

StoreWrite(r) ==
    /\ reqs[r].pc = "writing"
    /\ \E dbOk \in BOOLEAN :
         LET id == reqs[r].sub
         IN  IF store[id].present /\ dbOk
             THEN /\ store' = [store EXCEPT ![id] = UpdateData(reqs[r], @)]
                  /\ lastWriter' = [lastWriter EXCEPT ![id] = r]
                  /\ reqs' = [reqs EXCEPT ![r].pc = "resume", ![r].wr = "ok"]
             ELSE /\ reqs' = [reqs EXCEPT ![r].pc = "resume", ![r].wr = "failed"]
                  /\ UNCHANGED <<store, lastWriter>>
    /\ UNCHANGED <<now, config>>

Resume(r) ==
    /\ reqs[r].pc = "resume"
    /\ End(r, CASE reqs[r].op = "http" -> createContextResume(reqs[r], config)
                 [] reqs[r].op = "ws" -> wsContextResume(reqs[r])
                 [] reqs[r].op = "loginLegacy" -> loginLegacyResume(reqs[r], config)
                 [] OTHER -> loginResume(reqs[r], config))
    /\ UNCHANGED <<now, config, store, lastWriter>>

Next ==
    \/ Tick
    \/ \E r \in Reqs : HttpRequest(r)
    \/ \E r \in Reqs : WsConnect(r)
    \/ \E r \in Reqs : SubConnect(r)
    \/ \E r \in Reqs : Login(r)
    \/ \E r \in Reqs : StoreWrite(r)
    \/ \E r \in Reqs : Resume(r)

Spec == Init /\ [][Next]_vars

\* ------------------------------------------------------- sessions
\* the same login through the resolver of resolvers/mutations.js
LoginLegacy(r) ==
    /\ CanStart(r)
    /\ \E u \in Users, passwordValid \in BOOLEAN :
         Begin(r, loginLegacy(u, passwordValid, store[u], now, config))
    /\ UNCHANGED <<now, config, store, lastWriter>>

\* the logout mutation of an HTTP request, run with the context that
\* createContext returned for it
Logout(r) ==
    /\ reqs[r].op = "http" /\ reqs[r].pc = "done"
    /\ reqs[r].resolver = "none"
    /\ reqs' = [reqs EXCEPT ![r] = logout(@)]
    /\ UNCHANGED <<now, config, store, lastWriter>>

LogoutWrite(r) ==
    /\ reqs[r].pc = "rwriting"
    /\ \E dbOk \in BOOLEAN :
         LET id == reqs[r].user
         IN  IF store[id].present /\ dbOk
             THEN /\ store' = [store EXCEPT ![id] = LogoutData(@)]
                  /\ lastWriter' = [lastWriter EXCEPT ![id] = r]
                  /\ reqs' = [reqs EXCEPT ![r].pc = "rresume", ![r].rwr = "ok"]
             ELSE /\ reqs' = [reqs EXCEPT ![r].pc = "rresume", ![r].rwr = "failed"]
                  /\ UNCHANGED <<store, lastWriter>>
    /\ UNCHANGED <<now, config>>

LogoutResume(r) ==
    /\ reqs[r].pc = "rresume"
    /\ End(r, logoutResume(reqs[r], now))
    /\ UNCHANGED <<now, config, store, lastWriter>>

\* logins, refreshes and logouts of the HTTP endpoint
NextSession ==
    \/ Tick
    \/ \E r \in Reqs : HttpRequest(r)
    \/ \E r \in Reqs : Login(r)
    \/ \E r \in Reqs : Logout(r)
    \/ \E r \in Reqs : LogoutWrite(r)
    \/ \E r \in Reqs : LogoutResume(r)
    \/ \E r \in Reqs : StoreWrite(r)
    \/ \E r \in Reqs : Resume(r)

SpecSession == Init /\ [][NextSession]_vars

\* the two login resolvers side by side
NextLogin ==
    \/ Tick
    \/ \E r \in Reqs : Login(r)
    \/ \E r \in Reqs : LoginLegacy(r)
    \/ \E r \in Reqs : StoreWrite(r)
    \/ \E r \in Reqs : Resume(r)

SpecLogin == Init /\ [][NextLogin]_vars

\* ------------------------------------------------------- resolvers
\* the Role enumeration of the user table; user.role of the context is
\* the role in the payload of the verified token
Roles == {"USER", "MODERATOR", "ADMIN", "SYSADMIN"}

\* the extension code of an error thrown by a resolver (utils/errors.js is
\* not part of the sources; the codes are those of the specification)
ErrorCode(kind) ==
    IF kind = "ForbiddenError" THEN "FORBIDDEN"
    ELSE IF kind = "UnauthorizedError" THEN "UNAUTHENTICATED"
    ELSE "OTHER"

\* the resolver returns (or throws) without writing
Answer(rq, name, role, id, result) ==
    [rq EXCEPT !.resolver = name, !.role = role, !.target = id, !.result = result]

\* the resolver has called prisma (or created a pub/sub iterator)
Touch(rq) == [rq EXCEPT !.touched = TRUE]

\* Query.me
me(rq) ==
    IF rq.user = Null THEN Answer(rq, "me", "none", Null, "ForbiddenError")
    ELSE Touch(Answer(rq, "me", "none", Null, "ok"))

\* Query.user(id)
user(rq, role, id, row) ==
    IF rq.user = Null THEN Answer(rq, "user", "none", id, "ForbiddenError")
    ELSE IF rq.user # id /\ role # "ADMIN"
    THEN Answer(rq, "user", role, id, "ForbiddenError")
    ELSE IF ~row.present THEN Touch(Answer(rq, "user", role, id, "NotFoundError"))
    ELSE Touch(Answer(rq, "user", role, id, "ok"))

\* Query.users
users_unguarded(rq, role) ==
    IF role # "ADMIN" THEN Answer(rq, "users", role, Null, "ForbiddenError")
    ELSE Touch(Answer(rq, "users", role, Null, "ok"))
users(rq, role) ==
    IF rq.user = Null THEN Answer(rq, "users", "none", Null, "ForbiddenError")
    ELSE IF role # "ADMIN" THEN Answer(rq, "users", role, Null, "ForbiddenError")
    ELSE Touch(Answer(rq, "users", role, Null, "ok"))

\* Mutation.deleteUser(id) up to its await on prisma.user.delete
deleteUser(rq, role, id) ==
    IF rq.user = Null THEN Answer(rq, "deleteUser", "none", id, "ForbiddenError")
    ELSE IF role # "ADMIN" /\ role # "SYSADMIN"
    THEN Answer(rq, "deleteUser", role, id, "ForbiddenError")
    ELSE IF rq.user = id THEN Answer(rq, "deleteUser", role, id, "ValidationError")
    ELSE [Touch(Answer(rq, "deleteUser", role, id, "none")) EXCEPT !.pc = "deleting"]

\* what createContext hands the resolver of a request: `{ user, res }`
\* with user null or the identity of a verified token
Context(r) ==
    /\ CanStart(r)
    /\ \E u \in Users \cup {Null} :
         Begin(r, IF u = Null THEN Anonymous([IdleReq EXCEPT !.op = "http"], "REJECTED")
                  ELSE Authenticated([IdleReq EXCEPT !.op = "http"], u))
    /\ UNCHANGED <<now, config, store, lastWriter>>

\* a resolver runs once per request, with the context createContext
\* returned for it
CanResolve(r) ==
    /\ reqs[r].op = "http" /\ reqs[r].pc = "done"
    /\ reqs[r].resolver = "none"

Me(r) ==
    /\ CanResolve(r)
    /\ reqs' = [reqs EXCEPT ![r] = me(@)]
    /\ UNCHANGED <<now, config, store, lastWriter>>

UserQuery(r) ==
    /\ CanResolve(r)
    /\ \E role \in Roles, id \in Users :
         reqs' = [reqs EXCEPT ![r] = user(@, role, id, store[id])]
    /\ UNCHANGED <<now, config, store, lastWriter>>

UsersQuery(r) ==
    /\ CanResolve(r)
    /\ \E role \in Roles : reqs' = [reqs EXCEPT ![r] = users(@, role)]
    /\ UNCHANGED <<now, config, store, lastWriter>>

DeleteUser(r) ==
    /\ CanResolve(r)
    /\ \E role \in Roles, id \in Users :
         reqs' = [reqs EXCEPT ![r] = deleteUser(@, role, id)]
    /\ UNCHANGED <<now, config, store, lastWriter>>

\* prisma.user.delete({ where: { id } }): P2025 when no row has the id
DeleteApply(r) ==
    /\ reqs[r].pc = "deleting"
    /\ LET id == reqs[r].target
       IN  IF store[id].present
           THEN /\ store' = [store EXCEPT ![id].present = FALSE]
                /\ reqs' = [reqs EXCEPT ![r].pc = "done", ![r].result = "ok"]
           ELSE /\ reqs' = [reqs EXCEPT ![r].pc = "done",
                                        ![r].result = "NotFoundError"]
                /\ UNCHANGED store
    /\ UNCHANGED <<now, config, lastWriter>>

\* the resolvers, each answering a request from its context
NextResolvers ==
    \/ \E r \in Reqs : Context(r)
    \/ \E r \in Reqs : Logout(r)
    \/ \E r \in Reqs : LogoutWrite(r)
    \/ \E r \in Reqs : LogoutResume(r)
    \/ \E r \in Reqs : Me(r)
    \/ \E r \in Reqs : UserQuery(r)
    \/ \E r \in Reqs : UsersQuery(r)
    \/ \E r \in Reqs : DeleteUser(r)
    \/ \E r \in Reqs : DeleteApply(r)

SpecResolvers == Init /\ [][NextResolvers]_vars

\* ------------------------------------------------------- deleteUser copies
\* deleteUser of resolvers/mutations.js, first copy, up to its await on
\* prisma.user.delete: own account, or any account for an ADMIN
deleteUserLegacy(rq, role, id) ==
    IF rq.user = Null
    THEN Answer(rq, "deleteUserLegacy", "none", id, "ForbiddenError")
    ELSE IF rq.user # id /\ role # "ADMIN"
    THEN Answer(rq, "deleteUserLegacy", role, id, "ForbiddenError")
    ELSE [Touch(Answer(rq, "deleteUserLegacy", role, id, "none"))
             EXCEPT !.pc = "deleting"]

\* deleteUser of resolvers/mutations.js, second copy, up to its await on
\* prisma.user.delete
deleteUserLegacy2(rq, role, id) ==
    IF rq.user = Null
    THEN Answer(rq, "deleteUserLegacy2", "none", id, "ForbiddenError")
    ELSE IF rq.user = id
    THEN Answer(rq, "deleteUserLegacy2", role, id, "ForbiddenError")
    ELSE IF role # "ADMIN" /\ role # "SYSADMIN"
    THEN Answer(rq, "deleteUserLegacy2", role, id, "ForbiddenError")
    ELSE [Touch(Answer(rq, "deleteUserLegacy2", role, id, "none"))
             EXCEPT !.pc = "deleting"]

DeleteUserLegacy(r) ==
    /\ CanResolve(r)
    /\ \E role \in Roles, id \in Users :
         reqs' = [reqs EXCEPT ![r] = deleteUserLegacy(@, role, id)]
    /\ UNCHANGED <<now, config, store, lastWriter>>

DeleteUserLegacy2(r) ==
    /\ CanResolve(r)
    /\ \E role \in Roles, id \in Users :
         reqs' = [reqs EXCEPT ![r] = deleteUserLegacy2(@, role, id)]
    /\ UNCHANGED <<now, config, store, lastWriter>>

\* the three deleteUser resolvers, each answering a request from its context
NextDelete ==
    \/ \E r \in Reqs : Context(r)
    \/ \E r \in Reqs : DeleteUser(r)
    \/ \E r \in Reqs : DeleteUserLegacy(r)
    \/ \E r \in Reqs : DeleteUserLegacy2(r)
    \/ \E r \in Reqs : DeleteApply(r)

SpecDelete == Init /\ [][NextDelete]_vars

\* ------------------------------------------------------- updateUser
\* the resolvers below do not read config.jwt: the default stands for any
InitDefault == Init /\ config = [accessExpiration |-> "15m", refreshExpiration |-> "7d"]

\* the fields of `input UpdateUserInput` in the schema
UpdateUserInput_withRole == {"email", "password", "firstName", "lastName", "role"}
UpdateUserInput == {"email", "password", "firstName", "lastName"}

\* input objects a client may send (Null: the field is left out): a new
\* first name, a new email, a role, and the first and the last together
\* with the id of the record
NoInput == [id |-> Null, email |-> Null, role |-> Null, firstName |-> Null]
UpdateInputs ==
    {[NoInput EXCEPT !.firstName = "new"],
     [NoInput EXCEPT !.email = "new@x.com"],
     [NoInput EXCEPT !.role = "ADMIN"],
     [NoInput EXCEPT !.id = "u1", !.firstName = "new"],
     [NoInput EXCEPT !.id = "u1", !.role = "ADMIN"]}

\* the server validates the variables against the schema before it calls
\* the resolver: an input with a field the input type lacks is refused
SchemaValid(input) ==
    \A f \in DOMAIN input : input[f] # Null => f \in UpdateUserInput

Refused(rq, name, input) ==
    [rq EXCEPT !.resolver = name, !.payload = input,
               !.result = "GRAPHQL_VALIDATION_FAILED"]

\* the row another user holds with this email, for findUnique({ email })
EmailTaken(email, id, st) ==
    \E u \in DOMAIN st : st[u].present /\ st[u].email = email /\ st[u].id # id

\* updateUser(_, { input }, { user }) of user/mutations.js (and the second
\* copy in resolvers/mutations.js), up to its await on prisma.user.update
updateUser(rq, role, input, st) ==
    LET id == input.id
        out(result) == [Answer(rq, "updateUser", IF rq.user = Null THEN "none" ELSE role,
                               id, result) EXCEPT !.payload = input]
    IN  IF id = Null
        THEN [Answer(rq, "updateUser", "none", id, "ValidationError")
                 EXCEPT !.payload = input]
        ELSE IF rq.user = Null THEN out("ForbiddenError")
        ELSE IF rq.user # id /\ role # "ADMIN" /\ role # "SYSADMIN"
        THEN out("ForbiddenError")
        ELSE IF input.email # Null /\ EmailTaken(input.email, id, st)
        THEN Touch(out("ConflictError"))
        ELSE [Touch(out("none")) EXCEPT !.pc = "updating"]

\* updateUser(_, { id, input }, { user }) of resolvers/mutations.js (first
\* copy), up to its await on prisma.user.update
updateUserLegacy(rq, role, id, input, st) ==
    LET out(result) == [Answer(rq, "updateUserLegacy",
                               IF rq.user = Null THEN "none" ELSE role,
                               id, result) EXCEPT !.payload = input]
    IN  IF rq.user = Null THEN out("ForbiddenError")
        ELSE IF rq.user # id /\ role # "ADMIN" THEN out("ForbiddenError")
        ELSE IF input.email # Null /\ EmailTaken(input.email, id, st)
        THEN Touch(out("ConflictError"))
        ELSE [Touch(out("none")) EXCEPT !.pc = "updating"]

\* `data: updatePayload`: every field of the payload replaces the column
ApplyPayload(row, payload) ==
    [c \in DOMAIN row |->
        IF c \in DOMAIN payload /\ payload[c] # Null THEN payload[c] ELSE row[c]]

UpdateUser(r) ==
    /\ CanResolve(r)
    /\ \E role \in Roles, input \in UpdateInputs :
         reqs' = [reqs EXCEPT ![r] =
                     IF SchemaValid(input) THEN updateUser(@, role, input, store)
                     ELSE Refused(@, "updateUser", input)]
    /\ UNCHANGED <<now, config, store, lastWriter>>

UpdateUserLegacy(r) ==
    /\ CanResolve(r)
    /\ \E role \in Roles, id \in Users, input \in UpdateInputs :
         reqs' = [reqs EXCEPT ![r] =
                     IF SchemaValid(input)
                     THEN updateUserLegacy(@, role, id, input, store)
                     ELSE Refused(@, "updateUserLegacy", input)]
    /\ UNCHANGED <<now, config, store, lastWriter>>

\* prisma.user.update({ where: { id }, data: updatePayload }): P2025 when
\* no row has the id
UpdateApply(r) ==
    /\ reqs[r].pc = "updating"
    /\ LET id == reqs[r].target
       IN  IF store[id].present
           THEN /\ store' = [store EXCEPT ![id] = ApplyPayload(@, reqs[r].payload)]
                /\ reqs' = [reqs EXCEPT ![r].pc = "done", ![r].result = "ok"]
           ELSE /\ reqs' = [reqs EXCEPT ![r].pc = "done",
                                        ![r].result = "NotFoundError"]
                /\ UNCHANGED store
    /\ UNCHANGED <<now, config, lastWriter>>

\* updateUser calls, each answering a request from its context
NextUpdate ==
    \/ \E r \in Reqs : Context(r)
    \/ \E r \in Reqs : UpdateUser(r)
    \/ \E r \in Reqs : UpdateUserLegacy(r)
    \/ \E r \in Reqs : UpdateApply(r)

SpecUpdate == InitDefault /\ [][NextUpdate]_vars

\* ------------------------------------------------------- subscriptions
\* Subscription.userCreated / userDeleted: subscribe
subscribeAdmin(rq, name, role) ==
    IF rq.user = Null THEN Answer(rq, name, "none", Null, "ForbiddenError")
    ELSE IF role # "ADMIN" THEN Answer(rq, name, role, Null, "ForbiddenError")
    ELSE Touch(Answer(rq, name, role, Null, "ok"))

\* Subscription.userUpdated(id): subscribe
subscribeUserUpdated(rq, role, id) ==
    IF rq.user = Null THEN Answer(rq, "userUpdated", "none", id, "ForbiddenError")
    ELSE IF rq.user # id /\ role # "ADMIN"
    THEN Answer(rq, "userUpdated", role, id, "ForbiddenError")
    ELSE Touch(Answer(rq, "userUpdated", role, id, "ok"))

UserCreated(r) ==
    /\ CanResolve(r)
    /\ \E role \in Roles : reqs' = [reqs EXCEPT ![r] = subscribeAdmin(@, "userCreated", role)]
    /\ UNCHANGED <<now, config, store, lastWriter>>

UserUpdated(r) ==
    /\ CanResolve(r)
    /\ \E role \in Roles, id \in Users :
         reqs' = [reqs EXCEPT ![r] = subscribeUserUpdated(@, role, id)]
    /\ UNCHANGED <<now, config, store, lastWriter>>

UserDeleted(r) ==
    /\ CanResolve(r)
    /\ \E role \in Roles : reqs' = [reqs EXCEPT ![r] = subscribeAdmin(@, "userDeleted", role)]
    /\ UNCHANGED <<now, config, store, lastWriter>>

\* every protected operation of the user domain (user/mutations.js and
\* the user queries), each answering a request from its context; no input
\* the schema admits takes this updateUser as far as its update
NextProtected ==
    \/ NextResolvers
    \/ \E r \in Reqs : UpdateUser(r)
    \/ \E r \in Reqs : UserCreated(r)
    \/ \E r \in Reqs : UserUpdated(r)
    \/ \E r \in Reqs : UserDeleted(r)

SpecProtected == InitDefault /\ [][NextProtected]_vars

\* ------------------------------------------------------- analytics routes
\* express/middleware/index.js is not part of the sources; the two
\* middlewares follow the documentation: authMiddleware answers 401
\* without an authenticated req.user, roleMiddleware(role) answers 403
\* when req.user.role is another role
authMiddleware(u) == IF u = Null THEN "401" ELSE "next"
roleMiddleware(required, role) == IF role # required THEN "403" ELSE "next"

\* the handlers each router mounts
Handlers1 == {"getMetrics", "getLogs", "getApiUsage", "renderDashboard"}
Handlers2 == {"renderDashboard", "getMetrics", "getUserAnalytics", "getDashboard"}

\* a request through the first router: router.use(authMiddleware),
\* router.use(roleMiddleware('ADMIN')), then the handler of the path
analyticsRoutes(u, role, handler) ==
    LET rq == [IdleReq EXCEPT !.op = "analytics1", !.pc = "done", !.user = u,
                              !.role = IF u = Null THEN "none" ELSE role,
                              !.resolver = handler]
    IN  IF authMiddleware(u) # "next" THEN [rq EXCEPT !.result = authMiddleware(u)]
        ELSE IF roleMiddleware("ADMIN", role) # "next"
        THEN [rq EXCEPT !.result = roleMiddleware("ADMIN", role)]
        ELSE [rq EXCEPT !.result = "handled"]

\* a request through the second router: both router.use lines are
\* commented out, the handler of the path runs
analyticsRoutes2(u, role, handler) ==
    [IdleReq EXCEPT !.op = "analytics2", !.pc = "done", !.user = u,
                    !.role = IF u = Null THEN "none" ELSE role,
                    !.resolver = handler, !.result = "handled"]

AnalyticsRequest(r) ==
    /\ CanStart(r)
    /\ \E u \in Users \cup {Null}, role \in Roles, h \in Handlers1 :
         Begin(r, analyticsRoutes(u, role, h))
    /\ UNCHANGED <<now, config, store, lastWriter>>

AnalyticsRequest2(r) ==
    /\ CanStart(r)
    /\ \E u \in Users \cup {Null}, role \in Roles, h \in Handlers2 :
         Begin(r, analyticsRoutes2(u, role, h))
    /\ UNCHANGED <<now, config, store, lastWriter>>

\* requests to /api/analytics through either router
NextAnalytics ==
    \/ \E r \in Reqs : AnalyticsRequest(r)
    \/ \E r \in Reqs : AnalyticsRequest2(r)

SpecAnalytics == Init /\ [][NextAnalytics]_vars

\* ------------------------------------------------------- register
\* register(_, { input }) of user/mutations.js and of both copies in
\* resolvers/mutations.js: public, no context consulted
RegisterEmails == {"u1@x.com", "a@x.com"}
RegisterRoles == {"USER", "ADMIN"}

\* prisma.user.findUnique({ where: { email } })
findUnique(email, st) == \E u \in DOMAIN st : st[u].present /\ st[u].email = email

\* publish(TOPICS.USER_CREATED, { userCreated: { user } })
publish(rq, topic, id) ==
    [rq EXCEPT !.events = Append(@, [topic |-> topic, user |-> id])]

\* the handler up to its await on bcrypt.hash
register(rq, email, role, st) ==
    LET in == [rq EXCEPT !.op = "register", !.resolver = "register",
                         !.payload.email = email, !.payload.role = role]
    IN  IF findUnique(email, st)
        THEN [in EXCEPT !.result = "ConflictError", !.pc = "done"]
        ELSE [in EXCEPT !.pc = "hashing"]

\* bcrypt.hash outside the try block: a rejection leaves the handler
registerHash(rq, hashOk) ==
    IF hashOk THEN [rq EXCEPT !.pc = "creating"]
    ELSE [rq EXCEPT !.result = "Error", !.pc = "done"]

\* the row prisma.user.create inserts; authToken columns are nullable
createData(row, email, role) ==
    [row EXCEPT !.present = TRUE, !.email = email, !.role = role,
                !.authToken = NoToken, !.authTokenExpiry = NoExpiry]

\* catch (error) { logger.error(...); throw error; }
registerCatch_publishing(rq, code) ==
    [publish(rq, "USER_CREATED", Null) EXCEPT !.result = code, !.pc = "done"]
registerCatch(rq, code) == [rq EXCEPT !.result = code, !.pc = "done"]

\* after the create resolved: publish, then return apiResponse
registerResume(rq) ==
    [publish(rq, "USER_CREATED", rq.target) EXCEPT !.result = "ok", !.pc = "done"]

Register(r) ==
    /\ CanStart(r)
    /\ \E email \in RegisterEmails, role \in RegisterRoles :
         Begin(r, register(IdleReq, email, role, store))
    /\ UNCHANGED <<now, config, store, lastWriter>>

RegisterHash(r) ==
    /\ reqs[r].pc = "hashing"
    /\ \E hashOk \in BOOLEAN : reqs' = [reqs EXCEPT ![r] = registerHash(@, hashOk)]
    /\ UNCHANGED <<now, config, store, lastWriter>>

\* prisma.user.create: the unique index User_email_key refuses a second
\* row with the email (P2002); any other store failure is "Error"
RegisterCreate(r) ==
    /\ reqs[r].pc = "creating"
    /\ \E dbOk \in BOOLEAN :
         LET email == reqs[r].payload.email
             id == NewId(r)
         IN  IF findUnique(email, store)
             THEN /\ reqs' = [reqs EXCEPT ![r] = registerCatch(@, "P2002")]
                  /\ UNCHANGED store
             ELSE IF ~dbOk
             THEN /\ reqs' = [reqs EXCEPT ![r] = registerCatch(@, "Error")]
                  /\ UNCHANGED store
             ELSE /\ store' = [store EXCEPT
                                 ![id] = createData(@, email, reqs[r].payload.role)]
                  /\ reqs' = [reqs EXCEPT ![r].target = id, ![r].pc = "created"]
    /\ UNCHANGED <<now, config, lastWriter>>

RegisterResume(r) ==
    /\ reqs[r].pc = "created"
    /\ reqs' = [reqs EXCEPT ![r] = registerResume(@)]
    /\ UNCHANGED <<now, config, store, lastWriter>>

NextRegister ==
    \/ \E r \in Reqs : Register(r)
    \/ \E r \in Reqs : RegisterHash(r)
    \/ \E r \in Reqs : RegisterCreate(r)
    \/ \E r \in Reqs : RegisterResume(r)

SpecRegister == InitDefault /\ [][NextRegister]_vars

TypeOK ==
    /\ now \in 0..MaxTime
    /\ \A r \in Reqs : reqs[r].pc \in
          {"idle", "writing", "resume", "rwriting", "rresume", "deleting",
           "updating", "hashing", "creating", "created", "done"}

\* ------------------------------------------------------- properties
RefreshOps == {"http", "ws"}
ContextOps == {"http", "ws", "sub"}

\* C1: a request on the HTTP or the WebSocket path whose bearer is
\* correctly signed but expired, whose refresh credential verifies and
\* whose store write succeeded ends REFRESHED, authenticated as the
\* subject of the refresh token, never anonymous.
C1_RefreshedWhenRefreshVerifies ==
    \A r \in Reqs :
        (/\ Done(r)
         /\ reqs[r].op \in RefreshOps
         /\ reqs[r].bearerSt = "TokenExpired"
         /\ reqs[r].refreshSt = "ok"
         /\ reqs[r].wr = "ok")
        => (/\ reqs[r].verdict = "REFRESHED"
            /\ reqs[r].user = reqs[r].sub
            /\ reqs[r].user # Null)

\* C2: after a request that ended with a successful refresh for subject
\* U, no other request for U having taken place, the stored authToken of
\* U is the access token that refresh minted.
C2_StoreHoldsRefreshedToken ==
    \A r \in Reqs :
        (/\ Done(r)
         /\ reqs[r].verdict = "REFRESHED"
         /\ \A q \in Reqs \ {r} : reqs[q].sub # reqs[r].sub)
        => store[reqs[r].sub].authToken = reqs[r].newAccessToken

\* C3: the store writes of a context builder are a function of the
\* verdict: one write when REFRESHED; no write, no cookie and no minted
\* token when AUTHENTICATED, REJECTED or REFRESH_REJECTED.
C3_WritesByVerdict ==
    \A r \in Reqs :
        (Done(r) /\ reqs[r].op \in ContextOps)
        => (/\ reqs[r].verdict = "REFRESHED" => reqs[r].wr = "ok"
            /\ reqs[r].verdict \in {"AUTHENTICATED", "REJECTED", "REFRESH_REJECTED"}
                 => (/\ reqs[r].wr # "ok"
                     /\ reqs[r].cookie = NoToken
                     /\ ~reqs[r].minted))

C7_WriteFailureSurfaces ==
    \A r \in Reqs :
        (Done(r) /\ reqs[r].op \in RefreshOps /\ reqs[r].wr = "failed")
        => reqs[r].threw

\* C8: a newly minted token is handed to the client (cookie, context
\* field, login response body) only after the store write recording the
\* new access token has completed successfully.
C8_NoUnrecordedToken ==
    \A r \in Reqs : Delivered(r) # {} => reqs[r].wr = "ok"

\* C9: a request never partially applies a refresh: the store write, the
\* hand-over of the new refresh token and the authenticated verdict all
\* happen or none does.
C9_RefreshAllOrNothing ==
    \A r \in Reqs :
        (Done(r) /\ reqs[r].op \in RefreshOps)
        => LET written == reqs[r].wr = "ok"
               handed == reqs[r].newRefreshToken \in Delivered(r)
               refreshed == reqs[r].verdict = "REFRESHED" /\ reqs[r].user # Null
           IN  (written <=> handed) /\ (written <=> refreshed)

\* two refreshes of the same subject
SameSubject(r1, r2) ==
    /\ r1 # r2
    /\ reqs[r1].op \in RefreshOps /\ reqs[r2].op \in RefreshOps
    /\ reqs[r1].sub \in Users /\ reqs[r1].sub = reqs[r2].sub

\* the refresh of r succeeded so far: its update is applied and it has
\* returned the identity or is about to resume
Refreshing(r) ==
    reqs[r].wr = "ok" /\ reqs[r].verdict \in {"none", "REFRESHED"}

\* both writes applied, last write wins
LastWriteWins ==
    \A r1 \in Reqs, r2 \in Reqs :
        (/\ SameSubject(r1, r2)
         /\ Refreshing(r1) /\ Refreshing(r2)
         /\ lastWriter[reqs[r1].sub] \in {r1, r2})
        => store[reqs[r1].sub].authToken
              = reqs[lastWriter[reqs[r1].sub]].newAccessToken

RefreshedHasWritten ==
    \A r \in Reqs :
        (reqs[r].op \in RefreshOps /\ reqs[r].verdict = "REFRESHED")
        => reqs[r].wr = "ok"

SameRefreshToken(r1, r2) ==
    /\ r1 # r2
    /\ Done(r1) /\ Done(r2)
    /\ reqs[r1].op \in RefreshOps /\ reqs[r2].op \in RefreshOps
    /\ reqs[r1].refreshTok # NoToken
    /\ reqs[r1].refreshTok = reqs[r2].refreshTok
    /\ reqs[r1].wr # "failed" /\ reqs[r2].wr # "failed"

\* C11: refresh tokens are not single-use: two requests presenting the
\* same unexpired refresh token, each with an expired bearer, both end
\* REFRESHED, and the access token minted by the first still verifies at
\* the time of the second while within its lifetime.
C11_RefreshTokenReusable ==
    \A r1 \in Reqs, r2 \in Reqs :
        SameRefreshToken(r1, r2)
        => (/\ reqs[r1].verdict = "REFRESHED"
            /\ reqs[r2].verdict = "REFRESHED"
            /\ (reqs[r1].at <= reqs[r2].at
                /\ reqs[r2].at <= reqs[r1].newAccessToken.exp)
               => verifyToken(reqs[r1].newAccessToken, FALSE, reqs[r2].at) = "ok")

\* ------------------------------------------------------- sessions: claims
\* the access tokens login and refresh can mint for u
MintedFor(u) == {generateAccessToken(u, t) : t \in SessionStart..MaxTime}

\* a logout of r that cleared the row of its user
LoggedOut(r) == reqs[r].resolver = "logout" /\ reqs[r].rwr = "ok"

OverwrittenOrCleared(u) ==
    /\ lastWriter[u] # 0
    /\ \/ LoggedOut(lastWriter[u])
       \/ reqs[lastWriter[u]].op \in RefreshOps

\* r arrives in this step and is given an authenticated context
ArrivesAuthenticated(r) ==
    /\ reqs[r].pc = "idle"
    /\ reqs'[r].op \in RefreshOps
    /\ reqs'[r].verdict = "AUTHENTICATED"

\* C13: once a logout has cleared the row of U, or a refresh has
\* overwritten its authToken, a request carrying an access token of U
\* issued before that (still unexpired) is not given an authenticated
\* context: only the recorded token authenticates.
C13_StaleAccessTokenUnusable ==
    [][\A r \in Reqs :
          (/\ ArrivesAuthenticated(r)
           /\ OverwrittenOrCleared(reqs'[r].user)
           /\ reqs'[r].bearerTok \in InitTokens)
          => store[reqs'[r].user].authToken = reqs'[r].bearerTok]_vars

\* the row of u as a read returns it is cleared
Cleared(u) ==
    store[u].authToken = NoToken /\ store[u].authTokenExpiry = NoExpiry

\* C14 (as stated): when a logout called with a valid bearer for U
\* completes, other requests for U being in flight or not, the row of U
\* shows authToken and authTokenExpiry cleared.
C14_Original ==
    [][\A r \in Reqs :
          (reqs[r].pc = "rresume" /\ reqs'[r].result = "LOGOUT_OK")
          => (store'[reqs[r].user].authToken = NoToken
              /\ store'[reqs[r].user].authTokenExpiry = NoExpiry)]_vars

\* C14 (amended): the row of U is cleared from the moment the update of
\* the logout is applied until the update of another request for U is
\* applied; a login or refresh for U whose update lands after that of the
\* logout leaves its token in the row, also when it lands before the
\* logout completes.
C14_ClearedUntilNextWrite ==
    \A u \in Users :
        (lastWriter[u] # 0 /\ LoggedOut(lastWriter[u])) => Cleared(u)

\* C14 witness: a logout of U has completed and its update is the last
\* applied to the row, while a login for U is in flight
C14_Witness ==
    \E r1 \in Reqs, r2 \in Reqs :
        /\ Done(r1) /\ reqs[r1].result = "LOGOUT_OK"
        /\ lastWriter[reqs[r1].user] = r1
        /\ Cleared(reqs[r1].user)
        /\ reqs[r2].op = "login" /\ reqs[r2].pc = "writing"
        /\ reqs[r2].sub = reqs[r1].user

\* C15: logout invalidates the refresh token: a request that arrives after
\* the logout of U has completed, with an expired bearer and the refresh
\* token issued to U before the logout (cookie or connection parameter),
\* does not end REFRESHED and does not write the row of U.
C15_LogoutInvalidatesRefreshToken ==
    \A r1 \in Reqs, r2 \in Reqs :
        (/\ Done(r1) /\ reqs[r1].result = "LOGOUT_OK"
         /\ reqs[r2].op \in RefreshOps
         /\ reqs[r2].bearerSt = "TokenExpired"
         /\ reqs[r2].refreshTok \in InitTokens
         /\ reqs[r2].refreshTok.sub = reqs[r1].user
         /\ reqs[r2].at > reqs[r1].doneAt)
        => (reqs[r2].verdict # "REFRESHED" /\ reqs[r2].wr # "ok")

\* ------------------------------------------------------- login: claims
\* C16: after a successful login, through either login resolver, the
\* access token in the response is the token that login minted for the
\* user matching the email, and, its update being the last applied to the
\* row, the row holds that token with its expiry and the last-login time.
C16_LoginReturnsRecordedToken ==
    \A r \in Reqs :
        (Done(r) /\ reqs[r].op \in LoginOps /\ reqs[r].verdict = "LOGIN_OK")
        => (/\ reqs[r].body = reqs[r].newAccessToken
            /\ reqs[r].body.sub = reqs[r].sub
            /\ lastWriter[reqs[r].sub] = r
               => (/\ store[reqs[r].sub].authToken = reqs[r].body
                   /\ store[reqs[r].sub].authTokenExpiry = reqs[r].expiry
                   /\ store[reqs[r].sub].lastLoginAt = reqs[r].at))

\* ------------------------------------------------------- adapters: claims
\* C17: on the HTTP cookie adapter, a request that ends REFRESHED hands
\* the caller the new refresh token in the cookie and the new access token
\* in the response or in the context the resolver answers from.
C17_HttpRefreshDeliversPair ==
    \A r \in Reqs :
        (Done(r) /\ reqs[r].op = "http" /\ reqs[r].verdict = "REFRESHED")
        => (/\ reqs[r].cookie = reqs[r].newRefreshToken
            /\ reqs[r].cookie # NoToken
            /\ reqs[r].newAccessToken \in Delivered(r))

\* C18: on the WebSocket adapters, a context produced by a successful
\* refresh carries tokenRefreshed: true and the new access and refresh
\* tokens, and no other context carries the flag.
C18_WsRefreshFlag ==
    \A r \in Reqs :
        (Done(r) /\ reqs[r].op \in {"ws", "sub"})
        => (/\ reqs[r].verdict = "REFRESHED"
               => (/\ reqs[r].tokenRefreshed
                   /\ reqs[r].ctxTokens
                   /\ reqs[r].newAccessToken # NoToken
                   /\ reqs[r].newRefreshToken # NoToken)
            /\ reqs[r].tokenRefreshed => reqs[r].verdict = "REFRESHED")

\* C19: a token is accepted only for its purpose: on every adapter, an
\* access token in the refresh slot never yields REFRESHED and a refresh
\* token presented as the bearer never yields AUTHENTICATED.
C19_PurposeEnforced ==
    \A r \in Reqs :
        (Done(r) /\ reqs[r].op \in ContextOps)
        => (/\ reqs[r].refreshSt = "PurposeMismatch"
               => reqs[r].verdict # "REFRESHED"
            /\ reqs[r].bearerSt = "PurposeMismatch"
               => reqs[r].verdict # "AUTHENTICATED")

\* ------------------------------------------------------- resolvers: claims
\* the identity of the context does not have the role (or the ownership)
\* the resolver asks for
InsufficientRole(rq) ==
    /\ rq.user # Null
    /\ \/ rq.resolver = "users" /\ rq.role # "ADMIN"
       \/ rq.resolver = "user" /\ rq.user # rq.target /\ rq.role # "ADMIN"
       \/ rq.resolver = "deleteUser" /\ rq.role \notin {"ADMIN", "SYSADMIN"}

Resolved(r) == Done(r) /\ reqs[r].resolver # "none"

\* C20: a resolver that requires authentication rejects an anonymous
\* context with an UNAUTHENTICATED error and an identity of insufficient
\* role with a FORBIDDEN error, and the two cases never yield the same
\* kind of error.
C20_DistinctErrorKinds ==
    /\ \A r \in Reqs :
          Resolved(r)
          => (/\ reqs[r].user = Null
                 => ErrorCode(reqs[r].result) = "UNAUTHENTICATED"
              /\ InsufficientRole(reqs[r])
                 => ErrorCode(reqs[r].result) = "FORBIDDEN")
    /\ \A r1 \in Reqs, r2 \in Reqs :
          (/\ Resolved(r1) /\ reqs[r1].user = Null
           /\ Resolved(r2) /\ InsufficientRole(reqs[r2]))
          => reqs[r1].result # reqs[r2].result

\* ------------------------------------------------------- configuration: claims
\* config.jwt with JWT_ACCESS_EXPIRATION and JWT_REFRESH_EXPIRATION unset
DefaultConfig == [accessExpiration |-> "15m", refreshExpiration |-> "7d"]

\* fifteen minutes, in seconds
DefaultAccessSeconds == 900

\* C21: under the default configuration a login with valid credentials
\* whose update the store applies succeeds and records an expiry 15
\* minutes after the login time, and the expiry validation of login and
\* of refresh lets the default value through.
C21_DefaultExpiryAccepted ==
    config = DefaultConfig
    => \A r \in Reqs :
          /\ (/\ Done(r) /\ reqs[r].op = "login"
              /\ reqs[r].verdict # "ValidationError"
              /\ reqs[r].wr # "failed")
             => (/\ reqs[r].verdict = "LOGIN_OK"
                 /\ reqs[r].expiry = (reqs[r].at + DefaultAccessSeconds) * 1000)
          /\ (Done(r) /\ reqs[r].op \in RefreshOps /\ reqs[r].minted)
             => reqs[r].wr # "none"

\* ------------------------------------------------------- analytics: claims
\* C22: no analytics handler of either router runs for a request that has
\* not passed authMiddleware and roleMiddleware('ADMIN'): a handled
\* request is that of an authenticated administrator.
C22_AnalyticsAdminOnly ==
    \A r \in Reqs :
        (/\ Done(r) /\ reqs[r].op \in {"analytics1", "analytics2"}
         /\ reqs[r].result = "handled")
        => (reqs[r].user # Null /\ reqs[r].role = "ADMIN")

\* ------------------------------------------------------- single refresh
\* C23: within one request at most one refresh is attempted: the refresh
\* credential is verified at most once, a pair is minted only by that one
\* attempt, and a request whose refresh failed has ended, with no further
\* verification or minting.
C23_AtMostOneRefresh ==
    \A r \in Reqs :
        /\ reqs[r].nVerifyRefresh <= 1
        /\ reqs[r].op \in ContextOps /\ reqs[r].minted
           => reqs[r].nVerifyRefresh = 1
        /\ reqs[r].verdict = "REFRESH_REJECTED"
           => (/\ Done(r)
               /\ reqs[r].newAccessToken = NoToken
               /\ reqs[r].newRefreshToken = NoToken)

\* C23 witness: a refresh that failed after minting (its store write was
\* refused) and one that failed at verification, each with its single
\* verification
C23_Witness ==
    \E r1 \in Reqs, r2 \in Reqs :
        /\ Done(r1) /\ reqs[r1].op \in RefreshOps
        /\ reqs[r1].minted /\ reqs[r1].wr = "failed"
        /\ reqs[r1].verdict = "REFRESH_REJECTED" /\ reqs[r1].nVerifyRefresh = 1
        /\ Done(r2) /\ reqs[r2].op \in ContextOps
        /\ ~reqs[r2].minted /\ reqs[r2].refreshSt = "SignatureInvalid"
        /\ reqs[r2].verdict = "REFRESH_REJECTED" /\ reqs[r2].nVerifyRefresh = 1

\* ------------------------------------------------------- protected operations
ProtectedOps ==
    {"me", "user", "users", "logout", "updateUser", "deleteUser",
     "userCreated", "userUpdated", "userDeleted"}

Rejections == {"ForbiddenError", "ValidationError", "GRAPHQL_VALIDATION_FAILED"}

\* C24: with an anonymous context each protected operation (me, user,
\* users, logout, updateUser, deleteUser, and the subscriptions
\* userCreated, userUpdated, userDeleted) is rejected before any store
\* read or write and before any pub/sub iterator is created.
C24_AnonymousRejectedUntouched ==
    \A r \in Reqs :
        (reqs[r].resolver \in ProtectedOps /\ reqs[r].user = Null)
        => (/\ Done(r)
            /\ reqs[r].result \in Rejections
            /\ ~reqs[r].touched)

\* C24 witness: an anonymous deleteUser and an anonymous userCreated
\* subscription were both rejected, while the row they would have touched
\* is still in place
C24_Witness ==
    \E r1 \in Reqs, r2 \in Reqs :
        /\ Done(r1) /\ reqs[r1].resolver = "deleteUser" /\ reqs[r1].user = Null
        /\ reqs[r1].result = "ForbiddenError" /\ ~reqs[r1].touched
        /\ store[reqs[r1].target].present
        /\ Done(r2) /\ reqs[r2].resolver = "userCreated" /\ reqs[r2].user = Null
        /\ reqs[r2].result = "ForbiddenError" /\ ~reqs[r2].touched

\* ------------------------------------------------------- deleteUser: claims
DeleteOps == {"deleteUser", "deleteUserLegacy", "deleteUserLegacy2"}

\* the caller may delete the target: an ADMIN or SYSADMIN, and not itself
MayDelete(rq) ==
    /\ rq.user # Null
    /\ rq.role \in {"ADMIN", "SYSADMIN"}
    /\ rq.user # rq.target

\* C25: each deleteUser resolver removes a row only for a caller of role
\* ADMIN or SYSADMIN whose id differs from the target; for any other
\* caller it fails with an error and deletes nothing.
C25_DeleteOnlyByAdmins ==
    \A r \in Reqs :
        (reqs[r].resolver \in DeleteOps /\ ~MayDelete(reqs[r]))
        => (/\ Done(r)
            /\ reqs[r].result \in {"ForbiddenError", "ValidationError"}
            /\ ~reqs[r].touched)

\* C26: under any interleaving of register calls that submit the same
\* email, one call creates the user record and every other call that
\* reaches the store fails with ConflictError; no two user records share
\* an email.
RegisterDone(r) == reqs[r].op = "register" /\ Done(r)

C26_ConcurrentRegisterOneWinner ==
    /\ \A u, v \in DOMAIN store :
         (store[u].present /\ store[v].present /\ store[u].email = store[v].email)
            => u = v
    /\ \A r1, r2 \in Reqs :
         (/\ r1 # r2
          /\ RegisterDone(r1) /\ RegisterDone(r2)
          /\ reqs[r1].payload.email = reqs[r2].payload.email
          /\ reqs[r1].result = "ok"
          /\ reqs[r2].result # "Error")
            => reqs[r2].result = "ConflictError"

\* C27: a register call that created a user has published exactly one
\* USER_CREATED event carrying that user, and an event is published only
\* once the created row is in the store; a register call that failed
\* (existing email, hashing or store error) has published nothing and
\* created nothing.
CreatedEvent(r) == [topic |-> "USER_CREATED", user |-> NewId(r)]

C27_PublishAfterCommit ==
    \A r \in Reqs :
        reqs[r].op = "register" =>
            /\ reqs[r].events # <<>> =>
                  /\ reqs[r].events = <<CreatedEvent(r)>>
                  /\ store[NewId(r)].present
                  /\ store[NewId(r)].email = reqs[r].payload.email
            /\ (Done(r) /\ store[NewId(r)].present) =>
                  (reqs[r].result = "ok" /\ reqs[r].events = <<CreatedEvent(r)>>)
            /\ (Done(r) /\ reqs[r].result # "ok") =>
                  (reqs[r].events = <<>> /\ ~store[NewId(r)].present)

\* one call created and published, another with the same email was
\* refused by the unique index, a third kind failed on the findUnique test
C27_Witness ==
    \E r1, r2 \in Reqs :
        /\ RegisterDone(r1) /\ reqs[r1].result = "ok"
        /\ reqs[r1].events = <<CreatedEvent(r1)>>
        /\ store[NewId(r1)].present
        /\ RegisterDone(r2) /\ reqs[r2].result \in {"P2002", "ConflictError", "Error"}
        /\ reqs[r2].events = <<>>

\* C28: a failed login, for an unknown email and for a known email with
\* a wrong password alike, throws ValidationError with the message
\* 'Invalid email or password', mints no token, performs no store write
\* and sets no cookie.
FailedLogin(r) ==
    /\ reqs[r].op \in LoginOps /\ Done(r)
    /\ reqs[r].verdict = "ValidationError"

RefreshForDeleted(r) ==
    /\ reqs[r].op \in ContextOps /\ Done(r)
    /\ reqs[r].bearerSt = "TokenExpired" /\ reqs[r].refreshSt = "ok"
    /\ reqs[r].refreshTok.sub = DeletedUser

C29_DeletedSubjectEndsAnonymous ==
    /\ ~store[DeletedUser].present
    /\ \A r \in Reqs :
         RefreshForDeleted(r) =>
            /\ reqs[r].user = Null
            /\ ~reqs[r].ctxTokens
            /\ reqs[r].cookie = NoToken
            /\ reqs[r].verdict # "REFRESHED"

\* C30: an update applied for a caller whose role is USER or MODERATOR
\* and who updates their own record leaves the stored role and the stored
\* id of every user record as they were, whatever input the call sent.
LowRoles == {"USER", "MODERATOR"}

OwnUpdateByLowRole(rq) ==
    /\ rq.resolver \in {"updateUser", "updateUserLegacy"}
    /\ rq.role \in LowRoles
    /\ rq.user # Null /\ rq.user = rq.target

C30_NoRoleOrIdChange ==
    [][\A r \in Reqs :
          (OwnUpdateByLowRole(reqs[r]) /\ reqs[r].pc = "updating" /\ reqs'[r].pc = "done")
             => \A u \in DOMAIN store :
                   /\ store'[u].role = store[u].role
                   /\ store'[u].id = store[u].id]_vars

\* a USER caller's update of their own first name has been applied
C30_Witness ==
    \E r \in Reqs :
        /\ OwnUpdateByLowRole(reqs[r]) /\ Done(r)
        /\ reqs[r].result = "ok"
        /\ reqs[r].payload.firstName = "new"
        /\ store[reqs[r].target].firstName = "new"
        /\ store[reqs[r].target].role = "USER"

====
